---- MODULE Spec2Model ----
(***************************************************************************)
(* Model of src/src/transcoder.ts (class Transcoder): the stderr line      *)
(* parser set up by _parseMetadata, the exit listeners registered by       *)
(* _parseMetadata and _exec, and the events they emit.                     *)
(*                                                                         *)
(* Lines are TLA+ strings; the regular expressions of the source are       *)
(* patterns (sequences of items) run by a backtracking matcher that tries  *)
(* alternatives in the order the JavaScript engine tries them.  JavaScript *)
(* values are tagged records; objects are functions from property names.   *)
(* The only whitespace character of the model's alphabet is the space.     *)
(***************************************************************************)
EXTENDS Integers, Sequences, FiniteSets, TLC

(***************************************************************************)
(* Characters                                                              *)
(***************************************************************************)
UpperLetters == "ABCDEFGHIJKLMNOPQRSTUVWXYZ"
LowerLetters == "abcdefghijklmnopqrstuvwxyz"
DigitChars == "0123456789"
HexChars == "0123456789abcdef"

CharAt(s, i) == SubSeq(s, i, i)
CharsOf(s) == {CharAt(s, i) : i \in 1..Len(s)}
IndexIn(s, ch) == CHOOSE i \in 1..Len(s) : CharAt(s, i) = ch

UpperSet == CharsOf(UpperLetters)
LowerSet == CharsOf(LowerLetters)
DigitSet == CharsOf(DigitChars)

\* String.prototype.toLowerCase on one character, and on a string
LowerChar(ch) ==
  IF ch \in UpperSet THEN CharAt(LowerLetters, IndexIn(UpperLetters, ch)) ELSE ch

RECURSIVE toLowerCase(_)
toLowerCase(s) ==
  IF s = "" THEN "" ELSE LowerChar(CharAt(s, 1)) \o toLowerCase(SubSeq(s, 2, Len(s)))

IsDigit(ch) == ch \in DigitSet
IsWord(ch) == ch \in UpperSet \cup LowerSet \cup DigitSet \cup {"_"}
IsSpace(ch) == ch = " "

(***************************************************************************)
(* JavaScript values                                                       *)
(***************************************************************************)
JNull == [t |-> "null"]
JUndef == [t |-> "undefined"]
JNaN == [t |-> "NaN"]
JStr(s) == [t |-> "string", s |-> s]
JNum(n) == [t |-> "number", n |-> n]

\* an object is a function from its own property names; {} has none
EmptyObject == [k \in {} |-> JUndef]
Has(o, k) == k \in DOMAIN o
Put(o, k, v) == [y \in DOMAIN o \cup {k} |-> IF y = k THEN v ELSE o[y]]

RECURSIVE Gcd(_, _)
Gcd(a, b) == IF b = 0 THEN a ELSE Gcd(b, a % b)

\* a / b on non-negative integers: an integer when exact, else a reduced ratio
JDiv(a, b) ==
  IF b = 0 THEN (IF a = 0 THEN JNaN ELSE [t |-> "Infinity"])
  ELSE IF a % b = 0 THEN JNum(a \div b)
  ELSE [t |-> "ratio", num |-> a \div Gcd(a, b), den |-> b \div Gcd(a, b)]

\* a / b on JavaScript values: NaN unless both are numbers
JDivV(a, b) == IF a.t = "number" /\ b.t = "number" THEN JDiv(a.n, b.n) ELSE JNaN

\* ToBoolean
Truthy(v) ==
  IF Has(v, "t")
    THEN CASE v.t = "null" -> FALSE
           [] v.t = "undefined" -> FALSE
           [] v.t = "NaN" -> FALSE
           [] v.t = "string" -> v.s # ""
           [] v.t = "number" -> v.n # 0
           [] OTHER -> TRUE
    ELSE TRUE

(***************************************************************************)
(* parseInt(string) with no radix                                          *)
(***************************************************************************)
RECURSIVE SkipSpaces(_, _)
SkipSpaces(s, i) ==
  IF i <= Len(s) /\ IsSpace(CharAt(s, i)) THEN SkipSpaces(s, i + 1) ELSE i

\* the value of the longest run of digits of `digits` (base Len(digits))
\* starting at i, given the value acc of the digits read so far
RECURSIVE ReadDigits(_, _, _, _)
ReadDigits(s, i, digits, acc) ==
  IF i <= Len(s) /\ LowerChar(CharAt(s, i)) \in CharsOf(digits)
    THEN ReadDigits(s, i + 1, digits,
                    acc * Len(digits) + IndexIn(digits, LowerChar(CharAt(s, i))) - 1)
    ELSE acc

HasDigitAt(s, i, digits) ==
  i <= Len(s) /\ LowerChar(CharAt(s, i)) \in CharsOf(digits)

\* the digits at j: hexadecimal after 0x or 0X, else decimal; NaN without a digit
ParseMagnitude(s, j) ==
  IF j + 1 <= Len(s) /\ CharAt(s, j) = "0" /\ LowerChar(CharAt(s, j + 1)) = "x"
    THEN (IF HasDigitAt(s, j + 2, HexChars)
            THEN JNum(ReadDigits(s, j + 2, HexChars, 0)) ELSE JNaN)
    ELSE (IF HasDigitAt(s, j, DigitChars)
            THEN JNum(ReadDigits(s, j, DigitChars, 0)) ELSE JNaN)

Negate(m) == IF m.t = "number" THEN JNum(0 - m.n) ELSE m

\* the optional sign at i, then the digits
ParseSigned(s, i) ==
  IF i <= Len(s) /\ CharAt(s, i) = "-" THEN Negate(ParseMagnitude(s, i + 1))
  ELSE IF i <= Len(s) /\ CharAt(s, i) = "+" THEN ParseMagnitude(s, i + 1)
  ELSE ParseMagnitude(s, i)

\* parseInt(undefined) is parseInt("undefined"): NaN
parseInt(v) ==
  IF v.t # "string" THEN JNaN ELSE ParseSigned(v.s, SkipSpaces(v.s, 1))

\* number * number and number + number, NaN being contagious
JMul(a, b) == IF a.t = "number" /\ b.t = "number" THEN JNum(a.n * b.n) ELSE JNaN
JAdd(a, b) == IF a.t = "number" /\ b.t = "number" THEN JNum(a.n + b.n) ELSE JNaN

(***************************************************************************)
(* Regular expressions: a pattern is a sequence of items, matched with     *)
(* backtracking in the engine's order (greedy: longest first, lazy:        *)
(* shortest first, alternatives left to right).                            *)
(***************************************************************************)
Unbounded == 0 - 1

Lit(ch) == [k |-> "lit", v |-> ch]
Digit == [k |-> "digit"]
Word == [k |-> "word"]
Space == [k |-> "space"]
NonSpace == [k |-> "nonspace"]
AnyChar == [k |-> "any"]
DigitOrDot == [k |-> "digitdot"]

Atom(c, min, max, greedy) ==
  [k |-> "atom", c |-> c, min |-> min, max |-> max, greedy |-> greedy]
One(c) == <<Atom(c, 1, 1, TRUE)>>
Opt(c) == <<Atom(c, 0, 1, TRUE)>>
Plus(c) == <<Atom(c, 1, Unbounded, TRUE)>>
PlusLazy(c) == <<Atom(c, 1, Unbounded, FALSE)>>
Star(c) == <<Atom(c, 0, Unbounded, TRUE)>>
StarLazy(c) == <<Atom(c, 0, Unbounded, FALSE)>>
Text(s) == [i \in 1..Len(s) |-> Atom(Lit(CharAt(s, i)), 1, 1, TRUE)]
\* ( body ) capturing group g
Group(g, body) == <<[k |-> "open", g |-> g]>> \o body \o <<[k |-> "close", g |-> g]>>
\* (?: body )? and ( ... )? : the body first, then without it
Optional(body) ==
  <<[k |-> "optopen", n |-> Len(body)]>> \o body \o <<[k |-> "optclose"]>>
\* (?: a | b | ... ) over literal strings
Alt(strs) == <<[k |-> "alt", v |-> strs]>>
\* (?: ch | $ )
CharOrEnd(ch) == <<[k |-> "charorend", v |-> ch]>>
Bol == <<[k |-> "bol"]>>
Eol == <<[k |-> "eol"]>>

ClassHas(c, ch, ci) ==
  CASE c.k = "lit" -> IF ci THEN LowerChar(ch) = LowerChar(c.v) ELSE ch = c.v
    [] c.k = "digit" -> IsDigit(ch)
    [] c.k = "word" -> IsWord(ch)
    [] c.k = "space" -> IsSpace(ch)
    [] c.k = "nonspace" -> ~IsSpace(ch)
    [] c.k = "digitdot" -> IsDigit(ch) \/ ch = "."
    [] c.k = "any" -> TRUE

\* how many characters from pos on are in class c, up to max
RunLength(s, c, ci, pos, max) ==
  LET limit == IF max = Unbounded \/ max > Len(s) + 1 - pos THEN Len(s) + 1 - pos ELSE max
      InClass(k) == ClassHas(c, CharAt(s, pos + k), ci)
  IN CHOOSE n \in 0..limit :
       /\ \A k \in 0..(n - 1) : InClass(k)
       /\ n = limit \/ ~InClass(n)

\* does the literal string lit stand at pos
LitAt(s, lit, ci, pos) ==
  /\ pos + Len(lit) - 1 <= Len(s)
  /\ \A i \in 1..Len(lit) :
       ClassHas(Lit(CharAt(lit, i)), CharAt(s, pos + i - 1), ci)

NoMatch == [ok |-> FALSE, e |-> 0, caps |-> <<>>]

RECURSIVE MatchFrom(_, _, _, _, _, _)
RECURSIVE TryCounts(_, _, _, _, _, _, _, _, _)
RECURSIVE TryAlts(_, _, _, _, _, _, _)

\* items i.. of p against s from position pos; caps[g] = <<begin, end>> of
\* group g, end 0 while the group has not taken part
MatchFrom(s, p, ci, i, pos, caps) ==
  IF i > Len(p) THEN [ok |-> TRUE, e |-> pos, caps |-> caps]
  ELSE
    LET it == p[i] IN
    CASE it.k = "atom" ->
           LET run == RunLength(s, it.c, ci, pos, it.max) IN
           IF run < it.min THEN NoMatch
           ELSE IF it.min = it.max THEN MatchFrom(s, p, ci, i + 1, pos + it.min, caps)
           ELSE TryCounts(s, p, ci, i, pos, caps, it.min, run, it.greedy)
      [] it.k = "open" ->
           MatchFrom(s, p, ci, i + 1, pos, [caps EXCEPT ![it.g] = <<pos, 0>>])
      [] it.k = "close" ->
           MatchFrom(s, p, ci, i + 1, pos, [caps EXCEPT ![it.g] = <<caps[it.g][1], pos>>])
      [] it.k = "optopen" ->
           LET with == MatchFrom(s, p, ci, i + 1, pos, caps) IN
           IF with.ok THEN with ELSE MatchFrom(s, p, ci, i + it.n + 2, pos, caps)
      [] it.k = "optclose" -> MatchFrom(s, p, ci, i + 1, pos, caps)
      [] it.k = "alt" -> TryAlts(s, p, ci, i, pos, caps, 1)
      [] it.k = "charorend" ->
           LET with == IF pos <= Len(s) /\ ClassHas(Lit(it.v), CharAt(s, pos), ci)
                         THEN MatchFrom(s, p, ci, i + 1, pos + 1, caps)
                         ELSE NoMatch
           IN IF with.ok THEN with
              ELSE IF pos = Len(s) + 1 THEN MatchFrom(s, p, ci, i + 1, pos, caps)
              ELSE NoMatch
      [] it.k = "bol" ->
           IF pos = 1 THEN MatchFrom(s, p, ci, i + 1, pos, caps) ELSE NoMatch
      [] it.k = "eol" ->
           IF pos = Len(s) + 1 THEN MatchFrom(s, p, ci, i + 1, pos, caps) ELSE NoMatch

\* of the attempts (each an [n, r]: a choice n and the match r of the rest
\* after it), the successful one the engine reaches first: the one of the
\* greatest n (greedy) or of the least n (lazy)
FirstSuccess(attempts, greedy) ==
  LET good == {x \in attempts : x.r.ok} IN
  IF good = {} THEN NoMatch
  ELSE IF greedy THEN (CHOOSE x \in good : \A y \in good : y.n <= x.n).r
  ELSE (CHOOSE x \in good : \A y \in good : x.n <= y.n).r

\* item i repeated n times, n in lo..hi, then the rest
TryCounts(s, p, ci, i, pos, caps, lo, hi, greedy) ==
  FirstSuccess({[n |-> n, r |-> MatchFrom(s, p, ci, i + 1, pos + n, caps)] : n \in lo..hi},
               greedy)

TryAlts(s, p, ci, i, pos, caps, a) ==
  IF a > Len(p[i].v) THEN NoMatch
  ELSE
    LET r == IF LitAt(s, p[i].v[a], ci, pos)
               THEN MatchFrom(s, p, ci, i + 1, pos + Len(p[i].v[a]), caps)
               ELSE NoMatch
    IN IF r.ok THEN r ELSE TryAlts(s, p, ci, i, pos, caps, a + 1)

\* a regular expression: its items, the i flag, its number of groups
RegExp(p, ci, ng) == [p |-> p, ci |-> ci, ng |-> ng]

\* the match array of a match r that begins at b
MatchArray(re, s, b, r) ==
  [t |-> "array",
   a |-> [g \in 0..re.ng |->
            IF g = 0 THEN JStr(SubSeq(s, b, r.e - 1))
            ELSE IF r.caps[g][2] = 0 THEN JUndef
            ELSE JStr(SubSeq(s, r.caps[g][1], r.caps[g][2] - 1))]]

\* the match of re against s that begins at b
MatchAt(re, s, b) == MatchFrom(s, re.p, re.ci, 1, b, [g \in 1..re.ng |-> <<0, 0>>])

\* the leftmost match among the attempts (each an [n, r]: a begin position n
\* and the match r from it), null when none succeeded
Leftmost(re, s, attempts) ==
  LET good == {x \in attempts : x.r.ok} IN
  IF good = {} THEN JNull
  ELSE MatchArray(re, s, (CHOOSE x \in good : \A y \in good : x.n <= y.n).n,
                  (CHOOSE x \in good : \A y \in good : x.n <= y.n).r)

\* RegExp.prototype.exec: the match array, or null
Exec(re, s) ==
  Leftmost(re, s, {[n |-> b, r |-> MatchAt(re, s, b)] : b \in 1..(Len(s) + 1)})
\* RegExp.prototype.test
Test(re, s) == Exec(re, s) # JNull
EmptyArray == [t |-> "array", a |-> EmptyObject]
\* array[i], undefined outside the array
Index(arr, i) == IF i \in DOMAIN arr.a THEN arr.a[i] ELSE JUndef

(***************************************************************************)
(* The regular expressions of _parseMetadata                               *)
(***************************************************************************)
\* /(\d+:\d+:\d+.\d+)/ as group 1: the timestamp of a duration or time field
Timestamp ==
  Group(1, Plus(Digit) \o Text(":") \o Plus(Digit) \o Text(":") \o Plus(Digit)
           \o One(AnyChar) \o Plus(Digit))

ReInput == RegExp(Bol \o Text("input"), TRUE, 0)
ReOutput == RegExp(Bol \o Text("output"), TRUE, 0)
ReMetadataMarker == RegExp(Bol \o Text("Metadata:") \o Eol, TRUE, 0)
ReDuration == RegExp(Bol \o Text("duration"), TRUE, 0)
ReDurationValue == RegExp(Text("duration: ") \o Timestamp, TRUE, 1)
ReStartZero == RegExp(Text("start: 0") \o One(AnyChar) \o Text("000000"), FALSE, 0)
ReStreamMapping == RegExp(Bol \o Text("stream mapping"), TRUE, 0)
ReStream == RegExp(Bol \o Text("stream #"), TRUE, 0)
ReProgress == RegExp(Bol \o Group(1, Alt(<<"frame", "size">>)) \o Text("="), TRUE, 1)
ReKeyValue ==
  RegExp(Bol \o Group(1, PlusLazy(NonSpace)) \o Star(Space) \o Text(":")
             \o Star(Space) \o Group(2, PlusLazy(AnyChar)) \o Eol, FALSE, 2)

\* (\d+)x(\d+)(?: \[.*?\])?(?:,|$), shared by the size and aspect filters
ReWxH ==
  RegExp(Group(1, Plus(Digit)) \o Text("x") \o Group(2, Plus(Digit))
           \o Optional(Text(" [") \o StarLazy(AnyChar) \o Text("]"))
           \o CharOrEnd(","), TRUE, 2)

ReMetaType ==
  RegExp(Text("Stream #") \o Plus(Digit) \o Text(":") \o Plus(Digit)
           \o StarLazy(AnyChar) \o Text(": ") \o Group(1, Plus(Word)) \o Text(":"),
         TRUE, 1)
ReMetaCodec ==
  RegExp(Text("Stream") \o StarLazy(AnyChar) \o Text(":") \o StarLazy(AnyChar)
           \o Text(": ") \o Plus(Word) \o Text(": ") \o Group(1, StarLazy(AnyChar))
           \o Alt(<<" ", "(">>), TRUE, 1)
ReMetaSamplerate == RegExp(Group(1, Plus(Digit)) \o Text(" Hz"), TRUE, 1)
ReMetaChannels ==
  RegExp(Plus(Digit) \o Text(" Hz, ") \o Group(1, StarLazy(AnyChar)) \o CharOrEnd(","),
         TRUE, 1)
ReMetaBitrate ==
  RegExp(Group(1, Plus(Digit)) \o Text(" ") \o Optional(Group(2, One(Word)))
           \o Text("b/s"), TRUE, 2)
ReMetaFps == RegExp(Group(1, Plus(Digit)) \o Text(" fps"), TRUE, 1)
ReMetaColors ==
  RegExp(Text("Video:") \o StarLazy(AnyChar) \o Text(", ")
           \o Group(1, StarLazy(AnyChar)) \o CharOrEnd(","), TRUE, 1)

ReProgFrame == RegExp(Text("frame= ") \o Opt(AnyChar) \o Group(1, Plus(Digit)), TRUE, 1)
ReProgFps == RegExp(Text("fps=") \o Group(1, Plus(DigitOrDot)), TRUE, 1)
ReProgQuality == RegExp(Text("q=") \o Group(1, Plus(DigitOrDot)), TRUE, 1)
ReProgSize ==
  RegExp(Text("size=") \o PlusLazy(Space) \o Group(1, Plus(Digit))
           \o Optional(Group(2, One(Word))) \o Text("b"), TRUE, 2)
ReProgTime == RegExp(Text("time=") \o Timestamp, TRUE, 1)
ReProgBitrate ==
  RegExp(Text("bitrate=") \o PlusLazy(Space) \o Group(1, Plus(DigitOrDot))
           \o Optional(Group(2, One(Word))) \o Text("bits/s"), TRUE, 2)

(***************************************************************************)
(* Results of code that may throw                                          *)
(***************************************************************************)
Return(v) == [threw |-> FALSE, v |-> v]
Throw == [threw |-> TRUE, v |-> JUndef]

\* r[i]: a TypeError on null and undefined, the element of an array, the
\* character of a string
Prop(r, i) ==
  CASE r.t \in {"null", "undefined"} -> Throw
    [] r.t = "array" -> Return(Index(r, i))
    [] r.t = "string" ->
         Return(IF i + 1 <= Len(r.s) THEN JStr(CharAt(r.s, i + 1)) ELSE JUndef)
    [] OTHER -> Return(JUndef)

\* String.prototype.split(/[:.]/)
RECURSIVE SplitFrom(_, _, _)
SplitFrom(s, i, piece) ==
  IF i > Len(s) THEN <<piece>>
  ELSE IF CharAt(s, i) \in {":", "."} THEN <<piece>> \o SplitFrom(s, i + 1, "")
  ELSE SplitFrom(s, i + 1, piece \o CharAt(s, i))

\* d[i] of the split, 0-based
Piece(d, i) == IF i + 1 <= Len(d) THEN JStr(d[i + 1]) ELSE JUndef

\* the sum _parseDuration returns, d being the split
DurationOf(d) ==
  JAdd(JAdd(JAdd(JMul(parseInt(Piece(d, 0)), JNum(60 * 60 * 1000)),
                 JMul(parseInt(Piece(d, 1)), JNum(60 * 1000))),
            JMul(parseInt(Piece(d, 2)), JNum(1000))),
       parseInt(Piece(d, 3)))

\* Converts a FFmpeg time format to milliseconds
_parseDuration(duration) ==
  IF duration.t # "string" THEN Throw   \* undefined.split
  ELSE Return(DurationOf(SplitFrom(duration.s, 1, "")))

(***************************************************************************)
(* The transforms of metadataFilters and progressFilters                   *)
(***************************************************************************)
\* r => { if (r[1]) return r[1].toLowerCase() }
LowerIfTruthy(r1) ==
  IF r1.threw THEN Throw
  ELSE IF Truthy(r1.v) THEN Return(JStr(toLowerCase(r1.v.s)))
  ELSE Return(JUndef)
TypeTransform(r) == LowerIfTruthy(Prop(r, 1))

\* r => mono: 1, stereo: 2, else parseInt(r)
ChannelsTransform(r) ==
  IF r = JStr("mono") THEN Return(JNum(1))
  ELSE IF r = JStr("stereo") THEN Return(JNum(2))
  ELSE Return(parseInt(r))

\* r => r[2] === 'k': parseInt(r[1]) * unit, 'm': * unit * unit, else parseInt(r[1])
Scaled(r2, n, unit) ==
  IF r2 = JStr("k") THEN Return(JMul(n, JNum(unit)))
  ELSE IF r2 = JStr("m") THEN Return(JMul(n, JNum(unit * unit)))
  ELSE Return(n)
ScaledTransform(r, unit) ==
  IF Prop(r, 2).threw THEN Throw
  ELSE Scaled(Prop(r, 2).v, parseInt(Prop(r, 1).v), unit)

\* r => { if (r[1] && r[2]) return { width, height } }
SizeTransform(r) ==
  IF Prop(r, 1).threw THEN Throw
  ELSE IF Truthy(Prop(r, 1).v) /\ Truthy(Prop(r, 2).v)
    THEN Return([width |-> parseInt(Prop(r, 1).v), height |-> parseInt(Prop(r, 2).v)])
  ELSE Return(JUndef)

\* r => { if (r[1] && r[2]) return parseInt(r[1]) / parseInt(r[2]) }
AspectTransform(r) ==
  IF Prop(r, 1).threw THEN Throw
  ELSE IF Truthy(Prop(r, 1).v) /\ Truthy(Prop(r, 2).v)
    THEN Return(JDivV(parseInt(Prop(r, 1).v), parseInt(Prop(r, 2).v)))
  ELSE Return(JUndef)

Transform(name, r) ==
  CASE name = "type" -> TypeTransform(r)
    [] name = "parseInt" -> Return(parseInt(r))
    [] name = "channels" -> ChannelsTransform(r)
    [] name = "bitrate" -> ScaledTransform(r, 1000)
    [] name = "size" -> SizeTransform(r)
    [] name = "aspect" -> AspectTransform(r)
    [] name = "progressSize" -> ScaledTransform(r, 1024)
    [] name = "_parseDuration" -> _parseDuration(r)

\* a filter: idx 0 and transform "none" stand for an absent idx and transform
Filter(key, match, idx, transform) ==
  [key |-> key, match |-> match, idx |-> idx, transform |-> transform]

metadataFilters ==
  << Filter("type", ReMetaType, 0, "type"),
     Filter("codec", ReMetaCodec, 1, "none"),
     Filter("samplerate", ReMetaSamplerate, 1, "parseInt"),
     Filter("channels", ReMetaChannels, 1, "channels"),
     Filter("bitrate", ReMetaBitrate, 0, "bitrate"),
     Filter("fps", ReMetaFps, 1, "parseInt"),
     Filter("size", ReWxH, 0, "size"),
     Filter("aspect", ReWxH, 0, "aspect"),
     Filter("colors", ReMetaColors, 1, "none") >>

progressFilters ==
  << Filter("frame", ReProgFrame, 1, "parseInt"),
     Filter("fps", ReProgFps, 1, "parseInt"),
     Filter("quality", ReProgQuality, 1, "parseInt"),
     Filter("size", ReProgSize, 0, "progressSize"),
     Filter("time", ReProgTime, 1, "_parseDuration"),
     Filter("bitrate", ReProgBitrate, 0, "bitrate") >>

\* filter.match.exec(data) || []
MatchOrEmpty(found) == IF found = JNull THEN EmptyArray ELSE found

\* the value handed to the transform: match[idx] when the filter has an idx,
\* else the initial value of `result`, null
FilterResult(filter, match) ==
  IF filter.idx # 0 THEN Index(match, filter.idx) ELSE JNull

\* v = filter.transform ? filter.transform(result) : result
FilterValue(filter, result) ==
  IF filter.transform # "none" THEN Transform(filter.transform, result)
  ELSE Return(result)

\* the loop of _applyFilters from filter i on, ret being the record so far
RECURSIVE ApplyFrom(_, _, _, _)
RECURSIVE ApplyStep(_, _, _, _, _)
ApplyFrom(data, filters, i, ret) ==
  IF i > Len(filters) THEN Return(ret)
  ELSE ApplyStep(data, filters, i, ret,
                 FilterValue(filters[i],
                             FilterResult(filters[i],
                                          MatchOrEmpty(Exec(filters[i].match, data)))))

\* if (v) ret[key] = v, then the next filter; a throwing transform ends the loop
ApplyStep(data, filters, i, ret, v) ==
  IF v.threw THEN Throw
  ELSE ApplyFrom(data, filters, i + 1,
                 IF Truthy(v.v) THEN Put(ret, filters[i].key, v.v) ELSE ret)

\* Applies a set of filters to some data and returns the result
_applyFilters(data, filters) == ApplyFrom(data, filters, 1, EmptyObject)

(***************************************************************************)
(* Bounds and inputs                                                       *)
(***************************************************************************)
\* the number of stderr lines delivered in a run
MaxLines == 4

\* the number of stderr lines delivered to the two runs of one Transcoder
MaxTwoRunLines == 2

\* the lines the child process may write to stderr
Lines ==
  { "Input #0, mp4, from 'x':",
    "Output #0, mp4, to 'y':",
    "  Metadata:",
    "    encoder         : Lavf58.29.100",
    "  Duration: 00:00:10.00, start: 0.000000, bitrate: 128 kb/s",
    "  Duration: xx:00:10.00, start: 0.000000, bitrate: 128 kb/s",
    "  Duration: 01:02:03.456, start: 0x000000, bitrate: 128 kb/s",
    "    Stream #0:0: Video: h264, yuv420p, 1280x720, 0 kb/s, 30 fps",
    "Stream mapping:",
    "frame=  100 fps= 30 q=28.0 size=    512kB time=00:00:05.00 bitrate= 800.0kbits/s",
    "frame=1: 2",
    "" }

\* the `code` of the child's exit event: an exit status, or null when the
\* child was terminated by a signal
ExitCodes == {JNum(0), JNum(1), JNull}

(***************************************************************************)
(* State                                                                   *)
(***************************************************************************)
VARIABLES
  child,          \* "none" before exec(), then "running", then "exited"
  exitCode,       \* the code of the child's exit event, undefined before it
  metadata,       \* _parseMetadata: const metadata = { input: {}, output: {} }
  current,        \* _parseMetadata: let current ("undefined", or the section
                  \*   of metadata it refers to: "input" or "output")
  ended,          \* _parseMetadata: let ended
  lastErrorLine,  \* Transcoder.lastErrorLine
  events,         \* the events emitted on the Transcoder, in order
  fed,            \* the lines readline has delivered so far, in order
  run2,           \* a second _exec on the same Transcoder: its child and the
                  \*   metadata, current and ended of its _parseMetadata
  fed2,           \* the lines readline has delivered to the second run
  args            \* Transcoder.args: its keys in insertion order, each with
                  \*   the tokens stored for it

vars == <<child, exitCode, metadata, current, ended, lastErrorLine, events, fed,
          run2, fed2, args>>

\* the parser state a handler works on
State == [metadata |-> metadata, current |-> current, ended |-> ended,
          lastErrorLine |-> lastErrorLine, events |-> events]

\* this.emit(type, data)
Emit(st, type, data) ==
  [st EXCEPT !.events = Append(@, [type |-> type, data |-> data])]

\* newLine.replace(/^\s+|\s+$/g, '')
RECURSIVE TrimEnd(_)
TrimEnd(s) ==
  IF Len(s) > 0 /\ IsSpace(CharAt(s, Len(s))) THEN TrimEnd(SubSeq(s, 1, Len(s) - 1)) ELSE s
Trim(s) == TrimEnd(SubSeq(s, SkipSpaces(s, 1), Len(s)))

\* if (!ended) this.emit('metadata', metadata); ended = true
_endParseNoGuard(st) == [Emit(st, "metadata", st.metadata) EXCEPT !.ended = TRUE]
_endParse(st) ==
  [(IF ~st.ended THEN Emit(st, "metadata", st.metadata) ELSE st) EXCEPT !.ended = TRUE]

(***************************************************************************)
(* The 'line' listener of _parseMetadata                                   *)
(***************************************************************************)
\* how a block of the try body ends: normally, or by throwing, with the
\* state as the statements run so far left it
Ok(st) == [threw |-> FALSE, st |-> st]
Thrown(st) == [threw |-> TRUE, st |-> st]

JBool(b) == [t |-> "boolean", b |-> b]

\* { streams: [] }
NewSection == [streams |-> <<>>]

\* the object `current` refers to, and an assignment to it
Current(st) == st.metadata[st.current]
SetCurrent(st, obj) == [st EXCEPT !.metadata[st.current] = obj]

\* current = metadata.input = { streams: [] }, and the same for output
BeginSection(st, name) ==
  [st EXCEPT !.metadata[name] = NewSection, !.current = name]

\* current.streams[current.streams.length - 1].metadata = {}, or
\* current.metadata = {} when the section has no stream
ResetMetadata(cur) ==
  IF Has(cur, "streams") /\ Len(cur.streams) > 0
    THEN [cur EXCEPT !.streams[Len(cur.streams)] = Put(@, "metadata", EmptyObject)]
    ELSE Put(cur, "metadata", EmptyObject)

\* the /^Metadata:$/ branch
MarkMetadata(st) ==
  IF st.current = "undefined" THEN Thrown(st)
  ELSE Ok(SetCurrent(st, ResetMetadata(Current(st))))

\* current.duration = _parseDuration(d[1]); current.synched = ...
AssignDuration(st, line, d) ==
  IF d = JNull \/ st.current = "undefined" \/ _parseDuration(Index(d, 1)).threw
    THEN Thrown(st)
    ELSE Ok(SetCurrent(st, Put(Put(Current(st), "duration", _parseDuration(Index(d, 1)).v),
                               "synched", JBool(Test(ReStartZero, line)))))

\* the /^duration/ branch
SetDuration(st, line) == AssignDuration(st, line, Exec(ReDurationValue, line))

\* current.streams.push(stream)
Push(st, stream) ==
  IF stream.threw THEN Thrown(st)
  ELSE Ok(SetCurrent(st, [Current(st) EXCEPT !.streams = Append(@, stream.v)]))

\* the /^stream #/ branch: current.streams.push(_applyFilters(line, metadataFilters))
PushStream(st, line) ==
  IF st.current = "undefined" THEN Thrown(st)
  ELSE Push(st, _applyFilters(line, metadataFilters))

\* metadataTarget: the metadata of the last stream when it has one, else the
\* metadata of the section when it has one, else none
MetadataTarget(cur) ==
  IF Len(cur.streams) > 0 /\ Has(cur.streams[Len(cur.streams)], "metadata") THEN "stream"
  ELSE IF Has(cur, "metadata") THEN "section"
  ELSE "none"

\* metadataTarget[metadataInfo[1]] = metadataInfo[2]
StoreInto(cur, target, metadataInfo) ==
  IF target = "none" \/ metadataInfo = JNull THEN cur
  ELSE IF target = "stream"
    THEN [cur EXCEPT !.streams[Len(cur.streams)].metadata =
                       Put(@, Index(metadataInfo, 1).s, Index(metadataInfo, 2))]
    ELSE [cur EXCEPT !.metadata = Put(@, Index(metadataInfo, 1).s, Index(metadataInfo, 2))]

\* the final else branch
StoreKeyValue(st, line) ==
  IF st.current = "undefined" THEN Thrown(st)
  ELSE Ok(SetCurrent(st, StoreInto(Current(st), MetadataTarget(Current(st)),
                                   Exec(ReKeyValue, line))))

\* if (line.length > 0) this.lastErrorLine = line
KeepLastLine(st, line) ==
  IF Len(line) > 0 THEN [st EXCEPT !.lastErrorLine = JStr(line)] ELSE st

\* the if / else if chain of the metadata phase
Classify(st, line) ==
  IF Test(ReInput, line) THEN Ok(BeginSection(st, "input"))
  ELSE IF Test(ReOutput, line) THEN Ok(BeginSection(st, "output"))
  ELSE IF Test(ReMetadataMarker, line) THEN MarkMetadata(st)
  ELSE IF Test(ReDuration, line) THEN SetDuration(st, line)
  ELSE IF Test(ReStreamMapping, line) THEN Ok(_endParse(st))
  ELSE IF Test(ReStream, line) THEN PushStream(st, line)
  ELSE StoreKeyValue(st, line)

\* the body of if (!ended) { ... }
ProcessMetadata(st, line) == Classify(KeepLastLine(st, line), line)

\* metadata.input.duration, undefined while the input section has none
InputDuration(st) ==
  IF Has(st.metadata.input, "duration") THEN st.metadata.input.duration ELSE JUndef

\* progress.time, undefined when the record has none
TimeOf(progress) == IF Has(progress, "time") THEN progress.time ELSE JUndef

\* if (metadata.input.duration) progress.progress = progress.time / duration
WithFraction(progress, duration) ==
  IF Truthy(duration) THEN Put(progress, "progress", JDivV(TimeOf(progress), duration))
  ELSE progress

\* this.emit('progress', progress), unless _applyFilters threw
EmitProgress(st, filtered) ==
  IF filtered.threw THEN Thrown(st)
  ELSE Ok(Emit(st, "progress", WithFraction(filtered.v, InputDuration(st))))

\* Track progress
TrackProgress(st, line) ==
  IF Test(ReProgress, line)
    THEN EmitProgress(IF ~st.ended THEN _endParse(st) ELSE st,
                      _applyFilters(line, progressFilters))
    ELSE Ok(st)

\* the second statement of the try body runs unless the first threw
ThenTrackProgress(a, line) == IF a.threw THEN a ELSE TrackProgress(a.st, line)

\* try { if (!ended) { ... } Track progress }
TryBodyNoGuard(st, line) == ThenTrackProgress(ProcessMetadata(st, line), line)
TryBody(st, line) ==
  ThenTrackProgress(IF ~st.ended THEN ProcessMetadata(st, line) ELSE Ok(st), line)

\* catch (e) { this.emit('parseError', line) }
Catch(b, line) == IF b.threw THEN Emit(b.st, "parseError", line) ELSE b.st

\* metadataLines.on('line', newLine => { ... })
LineListener(st, newLine) == Catch(TryBody(st, Trim(newLine)), Trim(newLine))

(***************************************************************************)
(* The 'exit' listeners, in the order they were registered                 *)
(***************************************************************************)
\* 'FFmpeg error: ' + this.lastErrorLine
ErrorMessage(st) ==
  "FFmpeg error: " \o (IF st.lastErrorLine = JNull THEN "null" ELSE st.lastErrorLine.s)

\* !code
Falsy(code) == ~Truthy(code)

\* _exec: child.on('exit', code => { if (!code) finish else error })
ExitListener(st, code) ==
  IF Falsy(code) THEN Emit(st, "finish", "")
  ELSE Emit(st, "error", ErrorMessage(st))

(***************************************************************************)
(* Actions                                                                 *)
(***************************************************************************)
Init ==
  /\ child = "none"
  /\ exitCode = JUndef
  /\ metadata = [input |-> EmptyObject, output |-> EmptyObject]
  /\ current = "undefined"
  /\ ended = FALSE
  /\ lastErrorLine = JNull
  /\ events = <<>>
  /\ fed = <<>>
  /\ run2 = [child |-> "none", metadata |-> [input |-> EmptyObject, output |-> EmptyObject],
             current |-> "undefined", ended |-> FALSE]
  /\ fed2 = <<>>
  /\ args = <<>>

Install(st) ==
  /\ metadata' = st.metadata
  /\ current' = st.current
  /\ ended' = st.ended
  /\ lastErrorLine' = st.lastErrorLine
  /\ events' = st.events

\* exec(), stream() or writeToFile(): _exec spawns the child and
\* _parseMetadata sets up a fresh parser
ExecCall ==
  /\ child = "none"
  /\ child' = "running"
  /\ metadata' = [input |-> EmptyObject, output |-> EmptyObject]
  /\ current' = "undefined"
  /\ ended' = FALSE
  /\ UNCHANGED <<exitCode, lastErrorLine, events, fed, run2, fed2, args>>

\* readline delivers the next stderr line; stderr may still hold lines when
\* the child's exit event has been delivered
LineEvent ==
  \E newLine \in Lines :
    /\ child # "none"
    /\ Len(fed) < MaxLines
    /\ Install(LineListener(State, newLine))
    /\ fed' = Append(fed, newLine)
    /\ UNCHANGED <<child, exitCode, run2, fed2, args>>

\* the child's exit event with the listener of _exec run first
ExitEventExecListenerFirst ==
  \E code \in ExitCodes :
    /\ child = "running"
    /\ child' = "exited"
    /\ exitCode' = code
    /\ Install(_endParse(ExitListener(State, code)))
    /\ UNCHANGED <<fed, run2, fed2, args>>

\* the child's exit event: the listener of _parseMetadata (_endParse, added
\* first), then the listener of _exec
ExitEvent ==
  \E code \in ExitCodes :
    /\ child = "running"
    /\ child' = "exited"
    /\ exitCode' = code
    /\ Install(ExitListener(_endParse(State), code))
    /\ UNCHANGED <<fed, run2, fed2, args>>

Next == ExecCall \/ LineEvent \/ ExitEvent

Spec == Init /\ [][Next]_vars

(***************************************************************************)
(* Two runs of one Transcoder: exec(), stream() or writeToFile() called    *)
(* again while the first child may still be running                        *)
(***************************************************************************)
\* the parser state a handler of the second run works on: the closure
\* variables of its own _parseMetadata, and the fields of the Transcoder
State2 == [metadata |-> run2.metadata, current |-> run2.current, ended |-> run2.ended,
           lastErrorLine |-> lastErrorLine, events |-> events]

Install2(st, ch) ==
  /\ run2' = [child |-> ch, metadata |-> st.metadata, current |-> st.current,
              ended |-> st.ended]
  /\ lastErrorLine' = st.lastErrorLine
  /\ events' = st.events

\* the second call of _exec: a second child and a fresh parser
ExecCall2 ==
  /\ child # "none"
  /\ run2.child = "none"
  /\ run2' = [child |-> "running",
              metadata |-> [input |-> EmptyObject, output |-> EmptyObject],
              current |-> "undefined", ended |-> FALSE]
  /\ UNCHANGED <<child, exitCode, metadata, current, ended, lastErrorLine, events,
                 fed, fed2, args>>

\* a line of the first child, within the bound on the lines of both runs
LineEventOfTwo == Len(fed) + Len(fed2) < MaxTwoRunLines /\ LineEvent

\* readline delivers the next stderr line of the second child
LineEvent2 ==
  \E newLine \in Lines :
    /\ run2.child # "none"
    /\ Len(fed) + Len(fed2) < MaxTwoRunLines
    /\ Install2(LineListener(State2, newLine), run2.child)
    /\ fed2' = Append(fed2, newLine)
    /\ UNCHANGED <<child, exitCode, metadata, current, ended, fed, args>>

\* the exit event of the second child
ExitEvent2 ==
  \E code \in ExitCodes :
    /\ run2.child = "running"
    /\ Install2(ExitListener(_endParse(State2), code), "exited")
    /\ UNCHANGED <<child, exitCode, metadata, current, ended, fed, fed2, args>>

NextTwoRuns ==
  ExecCall \/ ExecCall2 \/ LineEventOfTwo \/ LineEvent2 \/ ExitEvent \/ ExitEvent2

SpecTwoRuns == Init /\ [][NextTwoRuns]_vars

(***************************************************************************)
(* Configuration: the methods that fill Transcoder.args                    *)
(***************************************************************************)
\* this.args[key] = tokens: a new key goes last, a key already there keeps
\* its place
SetArg(a, key, tokens) ==
  IF \E i \in 1..Len(a) : a[i].key = key
    THEN [i \in 1..Len(a) |-> IF a[i].key = key THEN [key |-> key, tokens |-> tokens] ELSE a[i]]
    ELSE Append(a, [key |-> key, tokens |-> tokens])

\* for (let key in this.args) args = args.concat(this.args[key])
RECURSIVE _compileArguments(_)
_compileArguments(a) ==
  IF a = <<>> THEN <<>> ELSE Head(a).tokens \o _compileArguments(Tail(a))

\* Number.prototype.toString on a non-negative integer
RECURSIVE toString(_)
toString(n) ==
  IF n < 10 THEN CharAt(DigitChars, n + 1)
  ELSE toString(n \div 10) \o CharAt(DigitChars, (n % 10) + 1)

\* Sets the video codec
videoCodec(a, codec) == SetArg(a, "vcodec", <<"-vcodec", codec>>)

\* Sets the output format
format(a, fmt) ==
  IF toLowerCase(fmt) = "mp4"
    THEN SetArg(SetArg(a, "format", <<"-f", fmt>>), "movflags",
                <<"-movflags", "frag_keyframe+faststart">>)
    ELSE SetArg(a, "format", <<"-f", fmt>>)

\* the two while loops of captureFrame, which carry seconds over into
\* minutes and minutes over into hours
RECURSIVE CarryOver(_)
CarryOver(t) ==
  IF t.seconds >= 60
    THEN CarryOver([t EXCEPT !.seconds = @ - 60, !.minutes = @ + 1])
  ELSE IF t.minutes >= 60
    THEN CarryOver([t EXCEPT !.minutes = @ - 60, !.hours = @ + 1])
  ELSE t

\* hours + ':' + minutes + ':' + seconds of captureFrame, for a time of a
\* whole number of seconds
FrameTimestamp(secs) ==
  LET t == CarryOver([hours |-> secs \div (60 * 60),
                      minutes |-> (secs % (60 * 60)) \div 60,
                      seconds |-> (secs % (60 * 60)) % 60])
  IN toString(t.hours) \o ":" \o toString(t.minutes) \o ":" \o toString(t.seconds)

\* Capture a single frame at ms: sets up the transcoder for jpeg output
captureFrame(a, ms) ==
  format(videoCodec(SetArg(a, "ss", <<"-ss", FrameTimestamp(ms \div 1000), "-an", "-r", "1",
                                      "-vframes", "1", "-y">>),
                    "mjpeg"),
         "mjpeg")

\* the arguments the configuration methods are called with
Formats == {"mp4", "MP4", "webm"}
Codecs == {"h264", "vp9"}
FrameTimes == {0, 59000, 3723000}

FormatCall ==
  \E fmt \in Formats :
    /\ args' = format(args, fmt)
    /\ UNCHANGED <<child, exitCode, metadata, current, ended, lastErrorLine, events,
                   fed, run2, fed2>>

VideoCodecCall ==
  \E codec \in Codecs :
    /\ args' = videoCodec(args, codec)
    /\ UNCHANGED <<child, exitCode, metadata, current, ended, lastErrorLine, events,
                   fed, run2, fed2>>

CaptureFrameCall ==
  \E ms \in FrameTimes :
    /\ args' = captureFrame(args, ms)
    /\ UNCHANGED <<child, exitCode, metadata, current, ended, lastErrorLine, events,
                   fed, run2, fed2>>

NextConfig == FormatCall \/ VideoCodecCall \/ CaptureFrameCall

SpecConfig == Init /\ [][NextConfig]_vars

(***************************************************************************)
(* Vocabulary of the properties                                            *)
(***************************************************************************)
\* how many events of a type a sequence of events holds
Count(evs, type) == Cardinality({i \in 1..Len(evs) : evs[i].type = type})

\* the step is a 'line' event, and the trimmed line it handles
LineFed == Len(fed') = Len(fed) + 1
NewLine == Trim(fed'[Len(fed')])

IsStreamMapping(line) == Test(ReStreamMapping, line)
IsProgress(line) == Test(ReProgress, line)
IsStream(line) == Test(ReStream, line)

\* no rule of the classifier matches the line, and it is not key: value shaped
Unrecognized(line) ==
  /\ ~Test(ReInput, line) /\ ~Test(ReOutput, line) /\ ~Test(ReMetadataMarker, line)
  /\ ~Test(ReDuration, line) /\ ~Test(ReStreamMapping, line) /\ ~Test(ReStream, line)
  /\ ~Test(ReProgress, line) /\ ~Test(ReKeyValue, line)

\* the most recent non-empty trimmed line of ls, null when there is none
LastNonEmpty(ls) ==
  LET nonEmpty == {i \in 1..Len(ls) : Trim(ls[i]) # ""} IN
  IF nonEmpty = {} THEN JNull
  ELSE JStr(Trim(ls[CHOOSE i \in nonEmpty : \A j \in nonEmpty : j <= i]))

ScenarioBLine ==
  "frame=  100 fps= 30 q=28.0 size=    512kB time=00:00:05.00 bitrate= 800.0kbits/s"

(***************************************************************************)
(* Properties                                                              *)
(***************************************************************************)

\* C1: 'metadata' is never emitted twice, and once the child has exited it
\* has been emitted exactly once, whatever lines were delivered and however
\* their delivery interleaves with the exit event.
C1_MetadataOncePerRun ==
  /\ Count(events, "metadata") <= 1
  /\ child = "exited" => Count(events, "metadata") = 1

\* a run that delivered a stream-mapping line and a progress line and exited
C1_Witness ==
  /\ child = "exited"
  /\ Count(events, "metadata") = 1
  /\ \E i, j \in 1..Len(fed) :
       IsStreamMapping(Trim(fed[i])) /\ IsProgress(Trim(fed[j]))

\* C2: while Parsing, a line that starts with "stream mapping", "frame=" or
\* "size=" emits 'metadata' and enters Ended while that line is handled,
\* whatever was fed before, also when no header line was.
C2_EndLineEndsParsing ==
  [][(LineFed /\ ~ended /\ (IsStreamMapping(NewLine) \/ IsProgress(NewLine)))
       => (ended' /\ Count(events', "metadata") = Count(events, "metadata") + 1)]_vars

\* C3: handling a line emits exactly one 'progress' event when the line
\* starts with "frame=" or "size=", before and after the metadata phase has
\* ended, and none otherwise; no other step emits 'progress'.
C3_OneProgressPerProgressLine ==
  [][Count(events', "progress") =
       Count(events, "progress") + (IF LineFed /\ IsProgress(NewLine) THEN 1 ELSE 0)]_vars

\* C4: a "stream #" line fed while Parsing after a section header appends
\* exactly one stream descriptor to the current section's stream list.
C4_StreamLineAppendsDescriptor ==
  [][(LineFed /\ ~ended /\ current # "undefined" /\ IsStream(NewLine))
       => /\ current' = current
          /\ Len(metadata'[current].streams) = Len(metadata[current].streams) + 1]_vars

\* C5: a progress line fed once an input duration is recorded emits a
\* 'progress' event whose record has the fraction time / duration exactly
\* when the duration is nonzero; the line of scenario B with a duration of
\* 10000 ms gives frame 100, size 512 * 1024, time 5000 and fraction 1/2.
C5_ProgressRecordDecoded ==
  [][(LineFed /\ IsProgress(NewLine) /\ Has(metadata.input, "duration"))
       => LET e == events'[Len(events')]
              duration == InputDuration(State)
          IN /\ Len(events') > 0
             /\ e.type = "progress"
             /\ Has(e.data, "progress") <=> Truthy(duration)
             /\ Truthy(duration) => e.data.progress = JDivV(TimeOf(e.data), duration)
             /\ (NewLine = ScenarioBLine /\ duration = JNum(10000))
                  => /\ e.data.frame = JNum(100)
                     /\ e.data.size = JNum(512 * 1024)
                     /\ e.data.time = JNum(5000)
                     /\ e.data.progress = [t |-> "ratio", num |-> 1, den |-> 2]]_vars

\* C6: no 'metadata' event before the parser has ended; once it has ended
\* there is exactly one, and the record it carried still equals the parser's
\* record, whatever lines and exit event followed.
C6_EmittedRecordFrozen ==
  /\ ~ended => Count(events, "metadata") = 0
  /\ ended => /\ Count(events, "metadata") = 1
              /\ \A i \in 1..Len(events) :
                   events[i].type = "metadata" => events[i].data = metadata

\* a run that ended on a stream-mapping line, was then fed an "Input" header
\* and exited, the record still having the empty input section it was emitted with
C6_Witness ==
  /\ ended
  /\ child = "exited"
  /\ metadata.input = EmptyObject
  /\ \E i, j \in 1..Len(fed) :
       i < j /\ IsStreamMapping(Trim(fed[i])) /\ Test(ReInput, Trim(fed[j]))

\* C7: a line whose handling throws emits exactly one 'parseError' carrying
\* the trimmed line and nothing else, and leaves the metadata record, the
\* current section and the Parsing/Ended state as they were.
C7_ThrowingLineOnlyReported ==
  [][(LineFed /\ TryBody(State, NewLine).threw)
       => /\ events' = Append(events, [type |-> "parseError", data |-> NewLine])
          /\ metadata' = metadata
          /\ current' = current
          /\ ended' = ended]_vars

\* C8: a line that no classifier rule matches and that is not key: value
\* shaped emits no event and leaves the metadata record unchanged, in every
\* parser state.
C8_UnrecognizedLineIgnored ==
  [][(LineFed /\ Unrecognized(NewLine))
       => (events' = events /\ metadata' = metadata)]_vars

\* C9: the retained last diagnostic line is always the most recent non-empty
\* trimmed line fed so far.
C9_LastLineRetained == lastErrorLine = LastNonEmpty(fed)

\* C10: once the child has exited, exactly one of 'finish' and 'error' has
\* been emitted: 'finish' when the exit status is zero, 'error' with the last
\* diagnostic line otherwise, a signal's null code included.
C10_FinishOnlyOnStatusZero ==
  child = "exited" =>
    IF exitCode = JNum(0)
      THEN Count(events, "finish") = 1 /\ Count(events, "error") = 0
      ELSE /\ Count(events, "finish") = 0
           /\ Count(events, "error") = 1
           /\ \A i \in 1..Len(events) :
                events[i].type = "error" =>
                  \E line \in {lastErrorLine} :
                    events[i].data = "FFmpeg error: " \o (IF line = JNull THEN "null" ELSE line.s)

(***************************************************************************)
(* Vocabulary of the properties of the metadata phase                      *)
(***************************************************************************)
IsHeader(line) == Test(ReInput, line) \/ Test(ReOutput, line)
IsMarker(line) == Test(ReMetadataMarker, line)

\* the line reaches the final else branch, is key: value shaped and is not a
\* progress line
IsKeyValue(line) ==
  /\ ~IsHeader(line) /\ ~IsMarker(line) /\ ~Test(ReDuration, line)
  /\ ~IsStreamMapping(line) /\ ~IsStream(line) /\ ~IsProgress(line)
  /\ Test(ReKeyValue, line)

\* the index in ls of the header line of the current section, 0 without one
SectionStart(ls) ==
  LET headers == {i \in 1..Len(ls) : IsHeader(Trim(ls[i]))} IN
  IF headers = {} THEN 0 ELSE CHOOSE i \in headers : \A j \in headers : j <= i

\* the current section was fed a stream line, and a Metadata: marker after
\* the last of its stream lines
StreamThenMarker(ls) ==
  \E i \in (SectionStart(ls) + 1)..Len(ls) :
    /\ IsStream(Trim(ls[i]))
    /\ \A k \in (i + 1)..Len(ls) : ~IsStream(Trim(ls[k]))
    /\ \E j \in (i + 1)..Len(ls) : IsMarker(Trim(ls[j]))

\* sub occurs in s
Contains(s, sub) ==
  \E i \in 1..(Len(s) - Len(sub) + 1) : SubSeq(s, i, i + Len(sub) - 1) = sub

\* the number a string of decimal digits denotes
RECURSIVE Decimal(_)
Decimal(s) ==
  IF s = "" THEN 0
  ELSE Decimal(SubSeq(s, 1, Len(s) - 1)) * 10 + (IndexIn(DigitChars, CharAt(s, Len(s))) - 1)

\* the fields of the timestamp embedded in a duration line, <<>> without one
TimestampFields(line) ==
  LET d == Exec(ReDurationValue, line) IN
  IF d = JNull THEN <<>> ELSE SplitFrom(Index(d, 1).s, 1, "")

\* hours*3600000 + minutes*60000 + seconds*1000 + fraction
Milliseconds(f) ==
  Decimal(f[1]) * 3600000 + Decimal(f[2]) * 60000 + Decimal(f[3]) * 1000 + Decimal(f[4])

\* C11: once the current section was fed a stream line and then a "Metadata:"
\* marker, a key: value line is stored in the metadata mapping of the
\* section's last stream, and neither in an earlier stream's mapping nor in
\* the section's own mapping.
C11_KeyValueGoesToLastStream ==
  [][(LineFed /\ ~ended /\ current # "undefined" /\ IsKeyValue(NewLine)
        /\ StreamThenMarker(fed))
       => LET old == metadata[current]
              cur == metadata'[current]
              kv == Exec(ReKeyValue, NewLine)
              n == Len(cur.streams)
          IN /\ current' = current
             /\ n > 0
             /\ n = Len(old.streams)
             /\ Has(cur.streams[n], "metadata")
             /\ Has(cur.streams[n].metadata, Index(kv, 1).s)
             /\ cur.streams[n].metadata[Index(kv, 1).s] = Index(kv, 2)
             /\ \A i \in 1..(n - 1) : cur.streams[i] = old.streams[i]
             /\ Has(cur, "metadata") <=> Has(old, "metadata")
             /\ Has(cur, "metadata") => cur.metadata = old.metadata]_vars

\* C12: an "Input" or "Output" header line erases nothing: every field the
\* input section and the output section had before the line is still there
\* with its value.
C12_HeaderKeepsSections ==
  [][(LineFed /\ ~ended /\ IsHeader(NewLine))
       => \A s \in {"input", "output"} :
            \A k \in DOMAIN metadata[s] :
              Has(metadata'[s], k) /\ metadata'[s][k] = metadata[s][k]]_vars

\* C13: a duration line with a timestamp, fed while Parsing with the input
\* section current, sets the section's duration to hours*3600000 +
\* minutes*60000 + seconds*1000 + fraction (01:02:03.456 gives 3723456,
\* 00:00:10.00 gives 10000) and synched to whether the line contains
\* "start: 0.000000", and changes nothing else of the parser.
C13_DurationLineSetsDuration ==
  [][(LineFed /\ ~ended /\ current = "input" /\ Test(ReDuration, NewLine)
        /\ Len(TimestampFields(NewLine)) = 4)
       => /\ metadata' =
               [metadata EXCEPT !.input =
                  Put(Put(@, "duration", JNum(Milliseconds(TimestampFields(NewLine)))),
                      "synched", JBool(Contains(NewLine, "start: 0.000000")))]
          /\ Contains(NewLine, "01:02:03.456") => metadata'.input.duration = JNum(3723456)
          /\ Contains(NewLine, "00:00:10.00") => metadata'.input.duration = JNum(10000)
          /\ events' = events /\ current' = current /\ ended' = ended]_vars

\* the state of a parser _parseMetadata has just set up, on a Transcoder
\* that has emitted nothing
FreshState ==
  [metadata |-> [input |-> EmptyObject, output |-> EmptyObject], current |-> "undefined",
   ended |-> FALSE, lastErrorLine |-> JNull, events |-> <<>>]

\* the parser state after the lines of ls, delivered in order
RECURSIVE FeedAll(_, _)
FeedAll(st, ls) == IF ls = <<>> THEN st ELSE FeedAll(LineListener(st, Head(ls)), Tail(ls))

\* the records the 'metadata' events of evs carried
EmittedRecords(evs) == {evs[i].data : i \in {j \in 1..Len(evs) : evs[j].type = "metadata"}}

\* C14: once the child has exited, the emitted metadata record is the record
\* the lines written so far build when all of them are handled before the
\* exit: no line is left out for having been delivered after the exit event.
C14_EmittedRecordHasEveryLine ==
  child = "exited" =>
    EmittedRecords(events) = EmittedRecords(_endParse(FeedAll(FreshState, fed)).events)

\* C15: every 'finish' and every 'error' event is preceded by the 'metadata'
\* event of the run.
C15_MetadataBeforeFinish ==
  \A i \in 1..Len(events) :
    events[i].type \in {"finish", "error"} =>
      \E j \in 1..(i - 1) : events[j].type = "metadata"

\* a run that was still Parsing when the child exited: the exit event emitted
\* 'metadata' and then 'finish' or 'error'
C15_Witness ==
  /\ child = "exited"
  /\ \E i \in 1..(Len(events) - 1) :
       events[i].type = "metadata" /\ events[i + 1].type \in {"finish", "error"}

\* C16: a line starting with "stream mapping", "frame=" or "size=" has the
\* effect of its own rule only: it appends no stream descriptor and stores no
\* key: value entry, so the metadata record is as it was.
C16_OneRulePerLine ==
  [][(LineFed /\ (IsStreamMapping(NewLine) \/ IsProgress(NewLine)))
       => metadata' = metadata]_vars

\* the value _applyFilters computes for filter i on data
ValueOf(data, filters, i) ==
  FilterValue(filters[i], FilterResult(filters[i], MatchOrEmpty(Exec(filters[i].match, data))))

\* the field extractor does not throw on data, and leaves out the fields
\* whose pattern does not match
ExtractsWithoutThrowing(data, filters) ==
  /\ ~_applyFilters(data, filters).threw
  /\ \A i \in 1..Len(filters) :
       ~Test(filters[i].match, data) => ~Has(_applyFilters(data, filters).v, filters[i].key)

\* C17: the field extractor throws on no line it is handed, a stream line
\* with the metadata field set or a progress line with the progress field
\* set, and a pattern that does not match yields an absent field.
C17_ExtractorNeverThrows ==
  \A i \in 1..Len(fed) :
    /\ IsStream(Trim(fed[i])) => ExtractsWithoutThrowing(Trim(fed[i]), metadataFilters)
    /\ IsProgress(Trim(fed[i])) => ExtractsWithoutThrowing(Trim(fed[i]), progressFilters)

\* the field extractor returns a record on data, whose fields are exactly
\* those with a truthy transformed value
ReturnsTruthyFields(data, filters) ==
  /\ ~_applyFilters(data, filters).threw
  /\ DOMAIN _applyFilters(data, filters).v =
       {filters[i].key : i \in {j \in 1..Len(filters) :
                                  /\ ~ValueOf(data, filters, j).threw
                                  /\ Truthy(ValueOf(data, filters, j).v)}}
  /\ \A k \in DOMAIN _applyFilters(data, filters).v :
       Truthy(_applyFilters(data, filters).v[k])

\* C18: the record the field extractor returns for a line holds exactly the
\* fields whose transformed value is truthy; a stream line reporting a
\* bitrate of 0 gives a descriptor without a bitrate field.
C18_RecordHoldsTruthyFields ==
  \A i \in 1..Len(fed) :
    /\ IsStream(Trim(fed[i])) =>
         /\ ReturnsTruthyFields(Trim(fed[i]), metadataFilters)
         /\ Contains(Trim(fed[i]), " 0 kb/s") =>
              ~Has(_applyFilters(Trim(fed[i]), metadataFilters).v, "bitrate")
    /\ IsProgress(Trim(fed[i])) => ReturnsTruthyFields(Trim(fed[i]), progressFilters)

\* every key of the mapping old is a key of the mapping new, with the value
\* it had or the value the key: value line has for it
KeepsEntries(old, new, line) ==
  \A k \in DOMAIN old :
    /\ Has(new, k)
    /\ \/ new[k] = old[k]
       \/ /\ Test(ReKeyValue, line)
          /\ Index(Exec(ReKeyValue, line), 1) = JStr(k)
          /\ Index(Exec(ReKeyValue, line), 2) = new[k]

\* the object obj with a metadata mapping still has one in its next form,
\* with every entry kept
KeepsMapping(obj, next, line) ==
  Has(obj, "metadata") =>
    Has(next, "metadata") /\ KeepsEntries(obj.metadata, next.metadata, line)

\* C20: while Parsing, a line that is not a section header removes no entry
\* from the metadata mapping of the current section or of one of its streams.
C20_EntriesAccumulate ==
  [][(LineFed /\ ~ended /\ current # "undefined" /\ ~IsHeader(NewLine))
       => /\ KeepsMapping(metadata[current], metadata'[current], NewLine)
          /\ \A i \in 1..Len(metadata[current].streams) :
               /\ i <= Len(metadata'[current].streams)
               /\ KeepsMapping(metadata[current].streams[i],
                               metadata'[current].streams[i], NewLine)]_vars

\* the step is an event of the first run, or of the second
Run1Step == fed' # fed \/ child' # child
Run2Step == fed2' # fed2 \/ run2'.child # run2.child

\* C19: an event of one run of a Transcoder changes neither the metadata
\* record, nor the Parsing/Ended state, nor the last diagnostic line of its
\* other run.
C19_RunsShareNoState ==
  [][/\ Run2Step => /\ metadata' = metadata /\ current' = current /\ ended' = ended
                    /\ lastErrorLine' = lastErrorLine
     /\ Run1Step => /\ run2'.metadata = run2.metadata /\ run2'.current = run2.current
                    /\ run2'.ended = run2.ended
                    /\ run2.child # "none" => lastErrorLine' = lastErrorLine]_vars

\* the compiled argument list holds "-movflags frag_keyframe+faststart"
HasMovflags(tokens) ==
  \E i \in 1..(Len(tokens) - 1) :
    tokens[i] = "-movflags" /\ tokens[i + 1] = "frag_keyframe+faststart"

\* the output format set most recently is mp4, in any letter case
FormatIsMp4(a) ==
  \E i \in 1..Len(a) : a[i].key = "format" /\ toLowerCase(a[i].tokens[2]) = "mp4"

\* C21: the compiled argument list holds the movflags tokens exactly when
\* the output format set most recently is mp4; format('mp4') followed by a
\* format that is not mp4, or by captureFrame, compiles without them.
C21_MovflagsIffMp4 == HasMovflags(_compileArguments(args)) <=> FormatIsMp4(args)

====
